---- MODULE Spec2Model ----
(***************************************************************************)
(* Order processing of the product store: OrderService (createOrder,       *)
(* updateOrderStatus, processPayment, processRefund, addTracking,          *)
(* cancelOrder) over OrderRepository, ProductRepository and the Order      *)
(* model's instance methods and pre-save hooks.                            *)
(*                                                                         *)
(* Every request is a process.  One action is one stretch of a handler     *)
(* between two awaits on the database, so that database reads and writes   *)
(* of concurrent requests interleave exactly where the code lets them.     *)
(* Money is counted in cents and the tax rate in percent, so the           *)
(* arithmetic of the code stays in the integers.                           *)
(***************************************************************************)
EXTENDS Integers, Sequences, FiniteSets, TLC

(* ---------------------------------------------------------------- bounds *)

\* Requests started in one behaviour.
MaxRequests == 4

\* Requests started in one behaviour when requests may overlap.
MaxConcurrentRequests == 3

Procs == {1, 2}

(* --------------------------------------------------------------- catalog *)

Products == {"P1", "P2"}

\* "PX" is a well-formed id that no product document has.
ProductIds == Products \cup {"PX"}

Price(p) == IF p = "P1" THEN 1000 ELSE 300

InitialStock(p) == IF p = "P1" THEN 2 ELSE 1

\* The schema's defaults of a product: isActive true, status 'active'.
Listed == [isActive |-> TRUE, status |-> "active"]

Customers == {"u1", "u2"}

\* What the users have in their carts at the start: u1 one unit of P2, u2
\* nothing.
InitialCart(u) ==
    IF u = "u1" THEN << [product |-> "P2", quantity |-> 1] >> ELSE <<>>

\* "uX" is an id that no user document has.
CustomerIds == {"u1", "uX"}

(* ---------------------------------------------------------------- inputs *)

Line(p, q) == [productId |-> p, quantity |-> q]

ItemLists ==
    { <<>>,
      << Line("P1", 0) >>,
      << Line("P1", 2) >>,
      << Line("P2", 1) >>,
      << Line("P2", 3) >>,
      << Line("P1", 1), Line("P2", 1) >>,
      << Line("P1", 1), Line("P2", 2) >>,
      << Line("P2", 1), Line("PX", 1) >>,
      << Line("P2", 1), Line("P2", 1) >> }

\* taxRate in percent, shippingCost and discount in cents.
Pricings ==
    { [taxRate |-> 0,  shippingCost |-> 0,   discount |-> 0],
      [taxRate |-> 10, shippingCost |-> 500, discount |-> 0],
      [taxRate |-> 10, shippingCost |-> 0,   discount |-> 2000] }

OrderData(it, pr) ==
    [items |-> it, taxRate |-> pr.taxRate, shippingCost |-> pr.shippingCost,
     discount |-> pr.discount]

\* The requests tried one at a time.
OrderDatas == { OrderData(it, pr) : it \in ItemLists, pr \in Pricings }

\* The requests tried when requests overlap: fewer, the interleavings of
\* their steps being what is explored there.
ConcurrentOrderDatas ==
    { OrderData(it, [taxRate |-> 0, shippingCost |-> 0, discount |-> 0]) :
        it \in { << Line("P2", 1) >>,
                 << Line("P1", 1), Line("P2", 1) >> } }

Statuses ==
    {"pending", "confirmed", "processing", "shipped", "delivered",
     "cancelled", "refunded"}

TransactionIds == {"tx1", "tx2"}

RefundAmounts == {0, 300, 5000}

Roles == {"customer", "admin"}

(* ----------------------------------------------------------- Order model *)

\* A path of a document that was never assigned (undefined in the code).
Undefined == -1

NoDoc == [missing |-> TRUE]

RECURSIVE SumTotals(_)
SumTotals(items) ==
    IF items = <<>> THEN 0
    ELSE items[1].total + SumTotals(Tail(items))

HistoryEntry(s, n) == [status |-> s, note |-> n]

\* The document `new Order(orderData)` builds: the given paths plus the
\* schema's defaults (status pending, empty statusHistory).
NewOrder(orderData) ==
    [ customer       |-> orderData.customer,
      orderNumber    |-> Undefined,
      items          |-> orderData.items,
      subtotal       |-> orderData.subtotal,
      tax            |-> orderData.tax,
      shippingCost   |-> orderData.shippingCost,
      discount       |-> orderData.discount,
      total          |-> orderData.total,
      status         |-> "pending",
      payment        |-> [ status        |-> orderData.paymentStatus,
                           transactionId |-> "",
                           paymentDate   |-> 0,
                           refundDate    |-> 0,
                           refundAmount  |-> Undefined ],
      trackingNumber |-> "",
      statusHistory  |-> <<>>,
      taxRate        |-> orderData.taxRate ]

\* The schema's validators (min: 0 on the amounts, min: 1 on a quantity).
SchemaValid(d) ==
    /\ d.subtotal >= 0
    /\ d.tax >= 0
    /\ d.shippingCost >= 0
    /\ d.discount >= 0
    /\ d.total >= 0
    /\ \A k \in 1..Len(d.items) :
          /\ d.items[k].price >= 0
          /\ d.items[k].quantity >= 1
          /\ d.items[k].total >= 0

\* pre('save'): generate the order number of a new document.
PreSaveOrderNumber(d, isNew, number) ==
    IF isNew /\ d.orderNumber = Undefined
    THEN [d EXCEPT !.orderNumber = number]
    ELSE d

\* The hook taking the discount off the stored total at every save.
PreSaveTotals_discountOffStoredTotal(d) ==
    [d EXCEPT !.subtotal = SumTotals(d.items),
              !.total    = d.total - d.discount]

\* pre('save'): recompute subtotal and total.
PreSaveTotals(d) ==
    LET sub == SumTotals(d.items)
    IN  [d EXCEPT !.subtotal = sub,
                  !.total    = sub + d.tax + d.shippingCost - d.discount]

\* pre('save'): record a status change.  isModified('status') is true when
\* status was assigned a value other than the loaded (or default) one.
PreSaveStatusHistory(loaded, d) ==
    IF d.status # loaded.status
    THEN [d EXCEPT !.statusHistory =
                      Append(@, HistoryEntry(d.status, "none"))]
    ELSE d

PreSave(loaded, d, isNew, number) ==
    PreSaveStatusHistory(loaded,
        PreSaveTotals(PreSaveOrderNumber(d, isNew, number)))

\* document.save() of a loaded document: the paths that differ from the
\* loaded values are $set, the entries pushed to statusHistory are $push-ed
\* onto the stored array.
WriteBack(stored, loaded, d) ==
    [ stored EXCEPT
        !.status         = IF d.status # loaded.status THEN d.status ELSE @,
        !.subtotal       = IF d.subtotal # loaded.subtotal THEN d.subtotal ELSE @,
        !.total          = IF d.total # loaded.total THEN d.total ELSE @,
        !.trackingNumber = IF d.trackingNumber # loaded.trackingNumber
                           THEN d.trackingNumber ELSE @,
        !.payment        = [ f \in DOMAIN d.payment |->
                               IF d.payment[f] # loaded.payment[f]
                               THEN d.payment[f] ELSE @[f] ],
        !.statusHistory  = @ \o SubSeq(d.statusHistory,
                                       Len(loaded.statusHistory) + 1,
                                       Len(d.statusHistory)) ]

\* validTransitions with a shipped order still cancellable.
validTransitions_shippedCancellable ==
    [ pending    |-> {"confirmed", "cancelled"},
      confirmed  |-> {"processing", "cancelled"},
      processing |-> {"shipped", "cancelled"},
      shipped    |-> {"delivered", "cancelled"},
      delivered  |-> {"refunded"},
      cancelled  |-> {},
      refunded   |-> {} ]

validTransitions ==
    [ pending    |-> {"confirmed", "cancelled"},
      confirmed  |-> {"processing", "cancelled"},
      processing |-> {"shipped", "cancelled"},
      shipped    |-> {"delivered"},
      delivered  |-> {"refunded"},
      cancelled  |-> {},
      refunded   |-> {} ]

\* The guard testing only that the status changes.
CanTransition_anyChange(from, to) == to # from

\* orderSchema.methods.updateStatus: the guard that throws.
CanTransition(from, to) == to \in validTransitions[from]

\* orderSchema.methods.updateStatus, past the guard.
OrderUpdateStatus(d, newStatus) ==
    [d EXCEPT !.status = newStatus,
              !.statusHistory = Append(@, HistoryEntry(newStatus, "caller"))]

\* processPayment confirming the order whatever its status.
OrderProcessPayment_alwaysConfirm(d, transactionId, now) ==
    [d EXCEPT !.payment.status = "completed",
              !.payment.transactionId = transactionId,
              !.payment.paymentDate = now,
              !.status = "confirmed",
              !.statusHistory =
                  Append(@, HistoryEntry("confirmed", "auto-confirmed"))]

\* orderSchema.methods.processPayment
OrderProcessPayment(d, transactionId, now) ==
    LET paid == [d EXCEPT !.payment.status = "completed",
                          !.payment.transactionId = transactionId,
                          !.payment.paymentDate = now]
    IN  IF d.status = "pending"
        THEN [paid EXCEPT !.status = "confirmed",
                          !.statusHistory =
                              Append(@, HistoryEntry("confirmed", "auto-confirmed"))]
        ELSE paid

\* The refund that always records the order's total.
OrderProcessRefund_alwaysTotal(d, refundAmount, now) ==
    [d EXCEPT !.payment.status = "refunded",
              !.payment.refundDate = now,
              !.payment.refundAmount = d.total,
              !.status = "refunded",
              !.statusHistory = Append(@, HistoryEntry("refunded", "refunded"))]

\* orderSchema.methods.processRefund
OrderProcessRefund(d, refundAmount, now) ==
    [d EXCEPT !.payment.status = "refunded",
              !.payment.refundDate = now,
              !.payment.refundAmount =
                  IF refundAmount # 0 THEN refundAmount ELSE d.total,
              !.status = "refunded",
              !.statusHistory = Append(@, HistoryEntry("refunded", "refunded"))]

\* orderSchema.methods.addTracking
OrderAddTracking(d, trackingNumber) ==
    LET t == [d EXCEPT !.trackingNumber = trackingNumber]
    IN  IF d.status # "shipped"
        THEN [t EXCEPT !.status = "shipped",
                       !.statusHistory =
                           Append(@, HistoryEntry("shipped", "tracking"))]
        ELSE t

(* ------------------------------------------------------------- validator *)

\* validateOrder: at least one item, every quantity an integer in 1..100,
\* taxRate in [0, 1], shippingCost and discount not negative.
ValidateOrder(data) ==
    /\ Len(data.items) >= 1
    /\ \A k \in 1..Len(data.items) :
          data.items[k].quantity >= 1 /\ data.items[k].quantity <= 100
    /\ data.taxRate >= 0 /\ data.taxRate <= 100
    /\ data.shippingCost >= 0
    /\ data.discount >= 0

(* ----------------------------------------------------------------- state *)

VARIABLES
    stock,      \* Product.stock of every product document
    catalog,    \* Product.isActive and Product.status of every product document
    cart,       \* User.cart of every user document
    orders,     \* the orders collection; an order's id is its index
    req,        \* the request each process is serving, with its locals
    nreq        \* requests started so far; also the clock of new Date()

vars == <<stock, catalog, cart, orders, req, nreq>>

Idle ==
    [ op |-> "none", pc |-> "idle", arg |-> NoDoc, order |-> NoDoc,
      doc |-> NoDoc, i |-> 0, processedItems |-> <<>>, subtotal |-> 0,
      result |-> "none", available |-> 0, isPaymentSuccessful |-> FALSE,
      cart |-> <<>>, validationResults |-> <<>>, hasErrors |-> FALSE,
      error |-> NoDoc,
      preStock |-> [p \in Products |-> 0], preOrders |-> <<>> ]

Init ==
    /\ stock = [p \in Products |-> InitialStock(p)]
    /\ catalog = [p \in Products |-> Listed]
    /\ cart = [u \in Customers |-> InitialCart(u)]
    /\ orders = <<>>
    /\ req = [p \in Procs |-> Idle]
    /\ nreq = 0

\* A request may start when the process is idle and the budget allows.  When
\* `serial`, requests come one at a time and the first process serves them
\* all: which process serves a request that runs alone makes no difference.
CanStart(p, serial) ==
    /\ req[p].pc = "idle"
    /\ IF serial
       THEN nreq < MaxRequests /\ p = 1
       ELSE nreq < MaxConcurrentRequests

\* The locals of a request that starts now.
Begin(op, arg) ==
    [ Idle EXCEPT !.op = op, !.arg = arg,
                  !.preStock = stock, !.preOrders = orders ]

\* The request of p ends with `result`.
Finish(p, result) ==
    req' = [req EXCEPT ![p].pc = "done", ![p].result = result]

\* Product.findById / ProductRepository.findById
FindProduct(id) ==
    IF id \in Products
    THEN [ isActive |-> catalog[id].isActive, status |-> catalog[id].status,
           stock |-> stock[id] ]
    ELSE NoDoc

\* Order.findById / OrderRepository.findById
FindOrder(id) == IF id \in 1..Len(orders) THEN orders[id] ELSE NoDoc

\* ProductRepository.updateStock: findByIdAndUpdate with $inc, no validators.
UpdateStock(id, quantity) ==
    IF id \in Products
    THEN [stock EXCEPT ![id] = @ + quantity]
    ELSE stock

(* ----------------------------------------------------------- createOrder *)

\* validateOrder, then userRepository.findById(customerId).
createOrder_begin(p, serial) ==
    /\ CanStart(p, serial)
    /\ \E data \in (IF serial THEN OrderDatas ELSE ConcurrentOrderDatas),
          customerId \in (IF serial THEN CustomerIds ELSE {"u1"}) :
          LET r == Begin("createOrder", [data |-> data, customerId |-> customerId])
          IN  req' = [req EXCEPT ![p] =
                  IF ~ValidateOrder(data)
                  THEN [r EXCEPT !.pc = "done", !.result = "ValidationFailure"]
                  ELSE IF customerId \notin Customers
                  THEN [r EXCEPT !.pc = "done", !.result = "CustomerNotFound"]
                  ELSE [r EXCEPT !.pc = "co_find", !.i = 1]]
    /\ nreq' = nreq + 1
    /\ UNCHANGED <<catalog, cart, stock, orders>>

\* The test refusing only what an empty shelf cannot serve.
InsufficientStock_onlyWhenEmpty(productStock, quantity) == productStock = 0

\* `if (product.stock < item.quantity)`
InsufficientStock(productStock, quantity) == productStock < quantity

\* productRepository.findById(item.productId), the stock check on what was
\* read, and the line pushed to processedItems.
createOrder_findProduct(p) ==
    /\ req[p].pc = "co_find"
    /\ LET item == req[p].arg.data.items[req[p].i]
           id   == item.productId
       IN  IF id \notin Products
           THEN Finish(p, "ProductNotFound")
           ELSE IF InsufficientStock(stock[id], item.quantity)
           THEN req' = [req EXCEPT ![p].pc = "done",
                                   ![p].result = "InsufficientStock",
                                   ![p].available = stock[id]]
           ELSE LET itemTotal == Price(id) * item.quantity
                IN  req' = [req EXCEPT
                        ![p].pc = "co_reserve",
                        ![p].subtotal = @ + itemTotal,
                        ![p].processedItems =
                            Append(@, [ product  |-> id,
                                        price    |-> Price(id),
                                        quantity |-> item.quantity,
                                        total    |-> itemTotal ])]
    /\ UNCHANGED <<catalog, cart, stock, orders, nreq>>

\* productRepository.updateStock(product._id, -item.quantity), then the next
\* item of the loop.
createOrder_updateStock(p) ==
    /\ req[p].pc = "co_reserve"
    /\ LET item == req[p].arg.data.items[req[p].i]
       IN  stock' = UpdateStock(item.productId, -item.quantity)
    /\ req' = [req EXCEPT
                  ![p].i = @ + 1,
                  ![p].pc = IF req[p].i < Len(req[p].arg.data.items)
                            THEN "co_find" ELSE "co_persist"]
    /\ UNCHANGED <<catalog, cart, orders, nreq>>

\* createOrder taxing the shipping cost too.
CreateOrderData_taxOnShipping(customerId, data, processedItems, subtotal) ==
    LET tax == ((subtotal + data.shippingCost) * data.taxRate) \div 100
    IN  [ customer      |-> customerId,
          items         |-> processedItems,
          subtotal      |-> subtotal,
          tax           |-> tax,
          shippingCost  |-> data.shippingCost,
          discount      |-> data.discount,
          total         |-> subtotal + tax + data.shippingCost - data.discount,
          paymentStatus |-> "pending",
          taxRate       |-> data.taxRate ]

\* The order's amounts as createOrder computes them.
CreateOrderData(customerId, data, processedItems, subtotal) ==
    LET tax == (subtotal * data.taxRate) \div 100
    IN  [ customer      |-> customerId,
          items         |-> processedItems,
          subtotal      |-> subtotal,
          tax           |-> tax,
          shippingCost  |-> data.shippingCost,
          discount      |-> data.discount,
          total         |-> subtotal + tax + data.shippingCost - data.discount,
          paymentStatus |-> "pending",
          taxRate       |-> data.taxRate ]

\* orderRepository.create: new Order(orderData).save().  The save is refused
\* by the schema's validators (min: 0 on the amounts), or for a reason the
\* request does not decide (persisted = FALSE: the unique index on
\* orderNumber, `orderNumber: required` being validated before the hook
\* that generates it has run, a lost connection).
createOrder_persist(p) ==
    /\ req[p].pc = "co_persist"
    /\ \E persisted \in BOOLEAN :
          LET d == NewOrder(CreateOrderData(req[p].arg.customerId, req[p].arg.data,
                                            req[p].processedItems, req[p].subtotal))
          IN  IF SchemaValid(d) /\ persisted
              THEN /\ orders' = Append(orders,
                                       PreSave(d, d, TRUE, Len(orders) + 1))
                   /\ req' = [req EXCEPT ![p].pc = "co_clearCart"]
              ELSE /\ Finish(p, "CreateFailed")
                   /\ UNCHANGED orders
    /\ UNCHANGED <<catalog, cart, stock, nreq>>

\* userRepository.clearCart(customerId): User.findById, `this.cart = []` and
\* the save, then the success response.  The call is awaited inside the
\* try: when it rejects, the catch answers 'Failed to create order'.
createOrder_clearCart(p) ==
    /\ req[p].pc = "co_clearCart"
    /\ \E cleared \in BOOLEAN :
          IF cleared
          THEN /\ cart' = [cart EXCEPT ![req[p].arg.customerId] = <<>>]
               /\ Finish(p, "ok")
          ELSE /\ UNCHANGED cart
               /\ Finish(p, "CreateFailed")
    /\ UNCHANGED <<catalog, stock, orders, nreq>>

(* ----------------------------------------------------------- inputs of *)
(* ------------------------------------------------ the order operations *)

\* An order id the request names: a stored order's, or one that none has.
OrderIds(serial) ==
    IF serial THEN 1..(Len(orders) + 1) ELSE 1..Len(orders)

NewStatuses(serial) == IF serial THEN Statuses ELSE {"confirmed", "cancelled"}

Refunds(serial) == IF serial THEN RefundAmounts ELSE {0}

Cancellers(serial) ==
    IF serial THEN Customers \X Roles ELSE {<<"u1", "customer">>}

\* Order.findById(id) inside an OrderRepository method.
LoadDoc(p, next) ==
    req' = [req EXCEPT ![p].doc = FindOrder(req[p].arg.orderId), ![p].pc = next]

\* document.save() of the document d that was loaded as req[p].doc.
SaveDoc(p, d) ==
    orders' = [orders EXCEPT ![req[p].arg.orderId] =
                  WriteBack(@, req[p].doc, PreSave(req[p].doc, d, FALSE, 0))]

\* The turn giving back one unit whatever the line's quantity.
RestoreItem_oneUnit(p, here, after) ==
    LET item == req[p].order.items[req[p].i]
    IN  /\ stock' = UpdateStock(item.product, 1)
        /\ req' = [req EXCEPT ![p] =
                      IF req[p].i < Len(req[p].order.items)
                      THEN [@ EXCEPT !.i = @ + 1, !.pc = here]
                      ELSE after]

\* One turn of `for (const item of order.items) updateStock(item.product,
\* item.quantity)`; the locals after the last turn are `after`.
RestoreItem(p, here, after) ==
    LET item == req[p].order.items[req[p].i]
    IN  /\ stock' = UpdateStock(item.product, item.quantity)
        /\ req' = [req EXCEPT ![p] =
                      IF req[p].i < Len(req[p].order.items)
                      THEN [@ EXCEPT !.i = @ + 1, !.pc = here]
                      ELSE after]

Done(r, result) == [r EXCEPT !.pc = "done", !.result = result]

(* ----------------------------------------------------- updateOrderStatus *)

\* orderRepository.findById(orderId)
updateOrderStatus_begin(p, serial) ==
    /\ CanStart(p, serial)
    /\ \E id \in OrderIds(serial), newStatus \in NewStatuses(serial) :
          LET r == Begin("updateOrderStatus",
                         [orderId |-> id, newStatus |-> newStatus])
          IN  req' = [req EXCEPT ![p] =
                  IF FindOrder(id) = NoDoc
                  THEN Done(r, "OrderNotFound")
                  ELSE [r EXCEPT !.order = FindOrder(id), !.pc = "us_load"]]
    /\ nreq' = nreq + 1
    /\ UNCHANGED <<catalog, cart, stock, orders>>

\* OrderRepository.updateStatus: Order.findById(id)
updateOrderStatus_load(p) ==
    /\ req[p].pc = "us_load"
    /\ LoadDoc(p, "us_save")
    /\ UNCHANGED <<catalog, cart, stock, orders, nreq>>

\* `new AppError(message, statusCode)`
AppError(message, statusCode) ==
    [isAppError |-> TRUE, message |-> message, statusCode |-> statusCode]

\* The guard's `new Error(`Cannot transition from ${this.status} to
\* ${newStatus}`)`, the message kept in its parts.
TransitionError(from, to) ==
    [ isAppError |-> FALSE,
      message    |-> <<"Cannot transition from", from, "to", to>>,
      statusCode |-> Undefined ]

\* The catch of updateOrderStatus: an AppError goes on to the caller, any
\* other error is replaced.
UpdateOrderStatusCatch(error) ==
    IF error.isAppError THEN error
    ELSE AppError(<<"Failed to update order status">>, 500)

\* The test letting every change of status restore the stock.
RestoresStock_anyStatus(newStatus, order) == order.status # "cancelled"

\* `if (newStatus === 'cancelled' && order.status !== 'cancelled')`
RestoresStock(newStatus, order) ==
    newStatus = "cancelled" /\ order.status # "cancelled"

\* order.updateStatus(newStatus, ...): the guard, the assignment and the
\* save; then the service's test for restoring stock.
updateOrderStatus_save(p) ==
    /\ req[p].pc = "us_save"
    /\ LET newStatus == req[p].arg.newStatus
       IN  IF ~CanTransition(req[p].doc.status, newStatus)
           THEN /\ req' = [req EXCEPT ![p] =
                          [ Done(@, "UpdateStatusFailed") EXCEPT
                              !.error = UpdateOrderStatusCatch(
                                  TransitionError(req[p].doc.status, newStatus)) ]]
                /\ UNCHANGED orders
           ELSE /\ SaveDoc(p, OrderUpdateStatus(req[p].doc, newStatus))
                /\ req' = [req EXCEPT ![p] =
                      IF RestoresStock(newStatus, req[p].order)
                      THEN [@ EXCEPT !.pc = "us_restore", !.i = 1]
                      ELSE Done(@, "ok")]
    /\ UNCHANGED <<catalog, cart, stock, nreq>>

\* Stock restoration of a cancelled order, one item a turn.
updateOrderStatus_restore(p) ==
    /\ req[p].pc = "us_restore"
    /\ RestoreItem(p, "us_restore", Done(req[p], "ok"))
    /\ UNCHANGED <<catalog, cart, orders, nreq>>

(* -------------------------------------------------------- processPayment *)

\* The test reading the order's status instead of its payment's.
PaymentCompleted_orderStatus(order) == order.status = "completed"

\* The test `order.payment.status === 'completed'`.
PaymentCompleted(order) == order.payment.status = "completed"

\* orderRepository.findById(orderId) and the already-paid test.
processPayment_begin(p, serial) ==
    /\ CanStart(p, serial)
    /\ \E id \in OrderIds(serial), transactionId \in TransactionIds :
          LET r == Begin("processPayment",
                         [orderId |-> id, transactionId |-> transactionId])
              order == FindOrder(id)
          IN  req' = [req EXCEPT ![p] =
                  IF order = NoDoc
                  THEN Done(r, "OrderNotFound")
                  ELSE IF PaymentCompleted(order)
                  THEN Done([r EXCEPT !.order = order], "AlreadyPaid")
                  ELSE [r EXCEPT !.order = order, !.pc = "pp_gateway"]]
    /\ nreq' = nreq + 1
    /\ UNCHANGED <<catalog, cart, stock, orders>>

\* The payment going on whatever the gateway answered.
AfterPayment_resultIgnored(r, isPaymentSuccessful) ==
    [r EXCEPT !.isPaymentSuccessful = isPaymentSuccessful, !.pc = "pp_load"]

\* `if (!isPaymentSuccessful) throw new AppError('Payment processing failed')`
AfterPayment(r, isPaymentSuccessful) ==
    IF isPaymentSuccessful
    THEN [r EXCEPT !.isPaymentSuccessful = TRUE, !.pc = "pp_load"]
    ELSE Done([r EXCEPT !.isPaymentSuccessful = FALSE], "PaymentFailed")

\* simulatePayment: resolves after its delay, to success or to failure.
processPayment_simulatePayment(p) ==
    /\ req[p].pc = "pp_gateway"
    /\ \E isPaymentSuccessful \in BOOLEAN :
          req' = [req EXCEPT ![p] = AfterPayment(@, isPaymentSuccessful)]
    /\ UNCHANGED <<catalog, cart, stock, orders, nreq>>

\* OrderRepository.processPayment: Order.findById(id)
processPayment_load(p) ==
    /\ req[p].pc = "pp_load"
    /\ LoadDoc(p, "pp_save")
    /\ UNCHANGED <<catalog, cart, stock, orders, nreq>>

\* order.processPayment(transactionId) and its save.
processPayment_save(p) ==
    /\ req[p].pc = "pp_save"
    /\ SaveDoc(p, OrderProcessPayment(req[p].doc, req[p].arg.transactionId, nreq))
    /\ Finish(p, "ok")
    /\ UNCHANGED <<catalog, cart, stock, nreq>>

(* --------------------------------------------------------- processRefund *)

\* The tests without the one on the amount.
RefundRefusal_amountUntested(order, refundAmount) ==
    IF order.payment.status # "completed" THEN "PaymentNotCompleted"
    ELSE "none"

\* The two tests of processRefund on the order it read: the error thrown,
\* or "none".
RefundRefusal(order, refundAmount) ==
    IF order.payment.status # "completed" THEN "PaymentNotCompleted"
    ELSE IF refundAmount > order.total THEN "RefundExceedsTotal"
    ELSE "none"

\* orderRepository.findById(orderId) and the two tests on what was read.
processRefund_begin(p, serial) ==
    /\ CanStart(p, serial)
    /\ \E id \in OrderIds(serial), refundAmount \in Refunds(serial) :
          LET r == Begin("processRefund",
                         [orderId |-> id, refundAmount |-> refundAmount])
              order == FindOrder(id)
          IN  req' = [req EXCEPT ![p] =
                  IF order = NoDoc
                  THEN Done(r, "OrderNotFound")
                  ELSE IF RefundRefusal(order, refundAmount) # "none"
                  THEN Done([r EXCEPT !.order = order],
                            RefundRefusal(order, refundAmount))
                  ELSE [r EXCEPT !.order = order, !.pc = "pr_load"]]
    /\ nreq' = nreq + 1
    /\ UNCHANGED <<catalog, cart, stock, orders>>

\* OrderRepository.processRefund: Order.findById(id)
processRefund_load(p) ==
    /\ req[p].pc = "pr_load"
    /\ LoadDoc(p, "pr_save")
    /\ UNCHANGED <<catalog, cart, stock, orders, nreq>>

\* order.processRefund(refundAmount) and its save.
processRefund_save(p) ==
    /\ req[p].pc = "pr_save"
    /\ SaveDoc(p, OrderProcessRefund(req[p].doc, req[p].arg.refundAmount, nreq))
    /\ req' = [req EXCEPT ![p].pc = "pr_restore", ![p].i = 1]
    /\ UNCHANGED <<catalog, cart, stock, nreq>>

\* Stock restoration of a refunded order, one item a turn.
processRefund_restore(p) ==
    /\ req[p].pc = "pr_restore"
    /\ RestoreItem(p, "pr_restore", Done(req[p], "ok"))
    /\ UNCHANGED <<catalog, cart, orders, nreq>>

(* ----------------------------------------------------------- addTracking *)

\* orderRepository.findById(orderId)
addTracking_begin(p, serial) ==
    /\ CanStart(p, serial)
    /\ \E id \in OrderIds(serial) :
          LET r == Begin("addTracking",
                         [orderId |-> id, trackingNumber |-> "TRK01"])
          IN  req' = [req EXCEPT ![p] =
                  IF FindOrder(id) = NoDoc
                  THEN Done(r, "OrderNotFound")
                  ELSE [r EXCEPT !.order = FindOrder(id), !.pc = "at_load"]]
    /\ nreq' = nreq + 1
    /\ UNCHANGED <<catalog, cart, stock, orders>>

\* OrderRepository.addTracking: Order.findById(id)
addTracking_load(p) ==
    /\ req[p].pc = "at_load"
    /\ LoadDoc(p, "at_save")
    /\ UNCHANGED <<catalog, cart, stock, orders, nreq>>

\* order.addTracking(trackingNumber, shippedDate) and its save.
addTracking_save(p) ==
    /\ req[p].pc = "at_save"
    /\ SaveDoc(p, OrderAddTracking(req[p].doc, req[p].arg.trackingNumber))
    /\ Finish(p, "ok")
    /\ UNCHANGED <<catalog, cart, stock, nreq>>

(* ----------------------------------------------------------- cancelOrder *)

\* The tests without the one on the caller.
CancelRefusal_anyCaller(order, userId, userRole) ==
    IF order.status \notin {"pending", "confirmed"} THEN "CannotCancel"
    ELSE "none"

\* The permission test and the stage test of cancelOrder on the order it
\* read: the error thrown, or "none".
CancelRefusal(order, userId, userRole) ==
    IF userRole # "admin" /\ order.customer # userId THEN "Forbidden"
    ELSE IF order.status \notin {"pending", "confirmed"} THEN "CannotCancel"
    ELSE "none"

\* orderRepository.findById(orderId), the permission test and the stage test.
cancelOrder_begin(p, serial) ==
    /\ CanStart(p, serial)
    /\ \E id \in OrderIds(serial), who \in Cancellers(serial) :
          LET r == Begin("cancelOrder",
                         [orderId |-> id, userId |-> who[1], userRole |-> who[2]])
              order == FindOrder(id)
          IN  req' = [req EXCEPT ![p] =
                  IF order = NoDoc
                  THEN Done(r, "OrderNotFound")
                  ELSE IF CancelRefusal(order, who[1], who[2]) # "none"
                  THEN Done([r EXCEPT !.order = order],
                            CancelRefusal(order, who[1], who[2]))
                  ELSE [r EXCEPT !.order = order, !.pc = "ca_load"]]
    /\ nreq' = nreq + 1
    /\ UNCHANGED <<catalog, cart, stock, orders>>

\* OrderRepository.updateStatus: Order.findById(id)
cancelOrder_load(p) ==
    /\ req[p].pc = "ca_load"
    /\ LoadDoc(p, "ca_save")
    /\ UNCHANGED <<catalog, cart, stock, orders, nreq>>

\* order.updateStatus('cancelled', ...): the guard, the assignment, the save.
cancelOrder_save(p) ==
    /\ req[p].pc = "ca_save"
    /\ IF ~CanTransition(req[p].doc.status, "cancelled")
       THEN /\ Finish(p, "CancelFailed")
            /\ UNCHANGED orders
       ELSE /\ SaveDoc(p, OrderUpdateStatus(req[p].doc, "cancelled"))
            /\ req' = [req EXCEPT ![p].pc = "ca_restore", ![p].i = 1]
    /\ UNCHANGED <<catalog, cart, stock, nreq>>

\* Stock restoration, one item a turn; then the test for the refund.
cancelOrder_restore(p) ==
    /\ req[p].pc = "ca_restore"
    /\ RestoreItem(p, "ca_restore",
                   IF req[p].order.payment.status = "completed"
                   THEN [req[p] EXCEPT !.pc = "ca_refundLoad"]
                   ELSE Done(req[p], "ok"))
    /\ UNCHANGED <<catalog, cart, orders, nreq>>

\* OrderRepository.processRefund: Order.findById(id)
cancelOrder_refundLoad(p) ==
    /\ req[p].pc = "ca_refundLoad"
    /\ LoadDoc(p, "ca_refundSave")
    /\ UNCHANGED <<catalog, cart, stock, orders, nreq>>

\* order.processRefund(order.total) and its save.
cancelOrder_refundSave(p) ==
    /\ req[p].pc = "ca_refundSave"
    /\ SaveDoc(p, OrderProcessRefund(req[p].doc, req[p].order.total, nreq))
    /\ Finish(p, "ok")
    /\ UNCHANGED <<catalog, cart, stock, nreq>>

(* -------------------------------------------------- validateCartForOrder *)

\* The customers whose cart is validated; "uX" has no user document.
CartOwners(serial) == IF serial THEN Customers \cup {"uX"} ELSE {"u1"}

\* UserRepository.getCart: the user's cart, or [] when there is no user.
GetCart(id) == IF id \in Customers THEN cart[id] ELSE <<>>

\* The message of a line without the test on the stock.
CartItemMessage_stockUntested(product, quantity) ==
    IF product = NoDoc \/ ~product.isActive \/ product.status # "active"
    THEN "Product is no longer available"
    ELSE "OK"

\* The two tests of validateCartForOrder on a cart line and its product:
\* the message of the line's result.
CartItemMessage(product, quantity) ==
    IF product = NoDoc \/ ~product.isActive \/ product.status # "active"
    THEN "Product is no longer available"
    ELSE IF product.stock < quantity
    THEN "Only N items available"
    ELSE "OK"

\* userRepository.getCart(customerId) and the test for an empty cart.
validateCartForOrder_begin(p, serial) ==
    /\ CanStart(p, serial)
    /\ \E customerId \in CartOwners(serial) :
          LET r == Begin("validateCartForOrder", [customerId |-> customerId])
          IN  req' = [req EXCEPT ![p] =
                  IF GetCart(customerId) = <<>>
                  THEN Done(r, "CartEmpty")
                  ELSE [r EXCEPT !.cart = GetCart(customerId),
                                 !.i = 1, !.pc = "vc_find"]]
    /\ nreq' = nreq + 1
    /\ UNCHANGED <<catalog, cart, stock, orders>>

\* One turn of the loop: productRepository.findById(item.product._id) and
\* the line's result.  getCart populated cart.product, so the line of a
\* product that has no document holds null there and `item.product._id`
\* throws, which the catch answers with 'Failed to validate cart'.
validateCartForOrder_findProduct(p) ==
    /\ req[p].pc = "vc_find"
    /\ LET item    == req[p].cart[req[p].i]
           product == FindProduct(item.product)
           message == CartItemMessage(product, item.quantity)
           result  == [ productId         |-> item.product,
                        requestedQuantity |-> item.quantity,
                        availableStock    |-> IF product = NoDoc THEN 0
                                              ELSE product.stock,
                        isValid           |-> message = "OK",
                        message           |-> message ]
           r       == [req[p] EXCEPT
                          !.validationResults = Append(@, result),
                          !.hasErrors = @ \/ message # "OK"]
       IN  req' = [req EXCEPT ![p] =
                      IF item.product \notin Products
                      THEN Done(@, "ValidateFailed")
                      ELSE IF req[p].i < Len(req[p].cart)
                      THEN [r EXCEPT !.i = @ + 1]
                      ELSE Done(r, "ok")]
    /\ UNCHANGED <<catalog, cart, stock, orders, nreq>>

(* ---------------------------------------------------------------- return *)

\* The response has been sent; the process serves the next request.
Return(p) ==
    /\ req[p].pc = "done"
    /\ req' = [req EXCEPT ![p] = Idle]
    /\ UNCHANGED <<catalog, cart, stock, orders, nreq>>

(* --------------------------------------------------------- specification *)

Step(p, serial) ==
    \/ createOrder_begin(p, serial)
    \/ createOrder_findProduct(p)
    \/ createOrder_updateStock(p)
    \/ createOrder_persist(p)
    \/ createOrder_clearCart(p)
    \/ updateOrderStatus_begin(p, serial)
    \/ updateOrderStatus_load(p)
    \/ updateOrderStatus_save(p)
    \/ updateOrderStatus_restore(p)
    \/ processPayment_begin(p, serial)
    \/ processPayment_simulatePayment(p)
    \/ processPayment_load(p)
    \/ processPayment_save(p)
    \/ processRefund_begin(p, serial)
    \/ processRefund_load(p)
    \/ processRefund_save(p)
    \/ processRefund_restore(p)
    \/ addTracking_begin(p, serial)
    \/ addTracking_load(p)
    \/ addTracking_save(p)
    \/ cancelOrder_begin(p, serial)
    \/ cancelOrder_load(p)
    \/ cancelOrder_save(p)
    \/ cancelOrder_restore(p)
    \/ cancelOrder_refundLoad(p)
    \/ cancelOrder_refundSave(p)
    \/ validateCartForOrder_begin(p, serial)
    \/ validateCartForOrder_findProduct(p)
    \/ Return(p)

Next == \E p \in Procs : Step(p, TRUE)

Spec == Init /\ [][Next]_vars

NextConcurrent == \E p \in Procs : Step(p, FALSE)

SpecConcurrent == Init /\ [][NextConcurrent]_vars

\* The states of the product documents that cart validation is tried on:
\* P1 listed, switched off, or still isActive but discontinued.
Catalogs ==
    { [p \in Products |-> IF p = "P1" THEN c ELSE Listed] :
        c \in { Listed,
                [isActive |-> FALSE, status |-> "active"],
                [isActive |-> TRUE,  status |-> "discontinued"],
                [isActive |-> FALSE, status |-> "inactive"] } }

\* The carts of u1 that cart validation is tried on.
Carts ==
    { <<>>,
      << [product |-> "P2", quantity |-> 1] >>,
      << [product |-> "P1", quantity |-> 2], [product |-> "P2", quantity |-> 1] >>,
      << [product |-> "P1", quantity |-> 3] >>,
      << [product |-> "P2", quantity |-> 1], [product |-> "P1", quantity |-> 1] >>,
      << [product |-> "P2", quantity |-> 1], [product |-> "PX", quantity |-> 1] >> }

InitCart ==
    /\ stock = [p \in Products |-> InitialStock(p)]
    /\ catalog \in Catalogs
    /\ \E c \in Carts :
          cart = [u \in Customers |-> IF u = "u1" THEN c ELSE <<>>]
    /\ orders = <<>>
    /\ req = [p \in Procs |-> Idle]
    /\ nreq = 0

\* Cart validation next to order creation, which takes stock and clears the
\* cart; requests may overlap.
NextCart ==
    \E p \in Procs :
        \/ createOrder_begin(p, FALSE)
        \/ createOrder_findProduct(p)
        \/ createOrder_updateStock(p)
        \/ createOrder_persist(p)
        \/ createOrder_clearCart(p)
        \/ validateCartForOrder_begin(p, FALSE)
        \/ validateCartForOrder_findProduct(p)
        \/ Return(p)

SpecCart == InitCart /\ [][NextCart]_vars

(* ---------------------------------------------------------------- claims *)

\* The request of p has ended and was a call of `op`.
Finished(p, op) == req[p].pc = "done" /\ req[p].op = op

\* ... and it named an order that was stored when it began.
FinishedOn(p, op) ==
    /\ Finished(p, op)
    /\ req[p].arg.orderId \in 1..Len(req[p].preOrders)

Before(p) == req[p].preOrders[req[p].arg.orderId]

Now(p) == orders[req[p].arg.orderId]

\* The table of legal transitions, as the specification lists it.
LegalTable ==
    { <<"pending", "confirmed">>, <<"pending", "cancelled">>,
      <<"confirmed", "processing">>, <<"confirmed", "cancelled">>,
      <<"processing", "shipped">>, <<"processing", "cancelled">>,
      <<"shipped", "delivered">>, <<"delivered", "refunded">> }

\* C1: whenever createOrder fails, for whatever reason, every product's
\* stock equals its value before the call and no order has been persisted.
C1_CreateOrderAllOrNothing ==
    \A p \in Procs :
        Finished(p, "createOrder") /\ req[p].result # "ok"
            => stock = req[p].preStock /\ orders = req[p].preOrders

\* C2: every product's stock is at least 0 in every reachable state, under
\* any interleaving of the calls.
C2_StockNeverNegative == \A id \in Products : stock[id] >= 0

\* C3: two createOrder calls that overlap, each asking for the last unit of
\* a product whose stock is 1 (neither being refused by the database for
\* another reason): exactly one succeeds, the other fails with
\* InsufficientStock, one order is persisted and the final stock is 0.
C3_LastUnitSoldOnce ==
    ( /\ \A p \in Procs :
            /\ Finished(p, "createOrder")
            /\ req[p].arg.data.items = << Line("P2", 1) >>
            /\ req[p].preStock["P2"] = 1
            /\ req[p].preOrders = <<>>
            /\ req[p].result \in {"ok", "InsufficientStock"} )
    => /\ \E p \in Procs :
            /\ req[p].result = "ok"
            /\ \A q \in Procs \ {p} : req[q].result = "InsufficientStock"
       /\ Len(orders) = 1
       /\ stock["P2"] = 0

\* C4: updateOrderStatus of a stored order succeeds exactly when (current
\* status, requested status) is in the legal table; on success the order's
\* status is the requested one, and for every other pair the call fails.
C4_UpdateStatusFollowsTable ==
    \A p \in Procs :
        FinishedOn(p, "updateOrderStatus") =>
            LET pair == <<Before(p).status, req[p].arg.newStatus>>
            IN  /\ req[p].result = "ok" <=> pair \in LegalTable
                /\ req[p].result = "ok" => Now(p).status = req[p].arg.newStatus
                /\ req[p].result # "ok" => req[p].result = "UpdateStatusFailed"

C4_Witness ==
    \E p \in Procs :
        /\ FinishedOn(p, "updateOrderStatus")
        /\ Before(p).status = "delivered"
        /\ req[p].arg.newStatus = "refunded"
        /\ req[p].result = "ok"
        /\ Now(p).status = "refunded"

\* C5: an updateOrderStatus whose pair is not in the legal table fails and
\* leaves the order (status, payment, statusHistory) and every product's
\* stock as they were before the call.
C5_IllegalTransitionChangesNothing ==
    \A p \in Procs :
        ( /\ FinishedOn(p, "updateOrderStatus")
          /\ <<Before(p).status, req[p].arg.newStatus>> \notin LegalTable )
        => /\ req[p].result # "ok"
           /\ Now(p).status = Before(p).status
           /\ Now(p).payment = Before(p).payment
           /\ Now(p).statusHistory = Before(p).statusHistory
           /\ orders = req[p].preOrders
           /\ stock = req[p].preStock

C5_Witness ==
    \E p \in Procs :
        /\ FinishedOn(p, "updateOrderStatus")
        /\ Before(p).status = "delivered"
        /\ req[p].arg.newStatus = "shipped"
        /\ req[p].result = "UpdateStatusFailed"

\* C6: once an order's status is cancelled or refunded, no step of any
\* operation changes that order's status.
C6_TerminalStatusesStay ==
    [][ \A id \in 1..Len(orders) :
            orders[id].status \in {"cancelled", "refunded"}
                => orders'[id].status = orders[id].status ]_vars

\* C7: for every persisted order, subtotal is the sum of the line totals,
\* each line total is unit price times quantity, tax is subtotal times the
\* tax rate given at creation, and total = subtotal + tax + shippingCost -
\* discount.
C7_TotalsConsistent ==
    \A id \in 1..Len(orders) :
        LET o == orders[id]
        IN  /\ o.subtotal = SumTotals(o.items)
            /\ \A k \in 1..Len(o.items) :
                  o.items[k].total = o.items[k].price * o.items[k].quantity
            /\ o.tax * 100 = o.subtotal * o.taxRate
            /\ o.total = o.subtotal + o.tax + o.shippingCost - o.discount

\* 2 units at 10.00, tax rate 0.1, shipping 5.00, no discount: 20.00, 2.00
\* and 27.00.
C7_Witness ==
    \E id \in 1..Len(orders) :
        /\ Len(orders[id].items) = 1
        /\ orders[id].items[1].quantity = 2
        /\ orders[id].items[1].price = 1000
        /\ orders[id].taxRate = 10
        /\ orders[id].shippingCost = 500
        /\ orders[id].discount = 0
        /\ orders[id].subtotal = 2000
        /\ orders[id].tax = 200
        /\ orders[id].total = 2700

\* C8: no persisted order has a negative total, and a createOrder whose
\* discount exceeds subtotal + tax + shippingCost is rejected, persisting no
\* order and leaving every product's stock at its value before the call.
C8_NegativeTotalRejectedCleanly ==
    /\ \A id \in 1..Len(orders) : orders[id].total >= 0
    /\ \A p \in Procs :
          ( /\ Finished(p, "createOrder")
            /\ Len(req[p].processedItems) = Len(req[p].arg.data.items)
            /\ Len(req[p].processedItems) >= 1
            /\ CreateOrderData(req[p].arg.customerId, req[p].arg.data,
                               req[p].processedItems, req[p].subtotal).total < 0 )
          => /\ req[p].result # "ok"
             /\ orders = req[p].preOrders
             /\ stock = req[p].preStock

\* C9: processPayment on an order whose payment is already completed fails
\* with AlreadyPaid and leaves the order's payment fields, status and
\* statusHistory as they were.
C9_SecondPaymentRefused ==
    \A p \in Procs :
        ( /\ FinishedOn(p, "processPayment")
          /\ Before(p).payment.status = "completed" )
        => /\ req[p].result = "AlreadyPaid"
           /\ Now(p).payment = Before(p).payment
           /\ Now(p).status = Before(p).status
           /\ Now(p).statusHistory = Before(p).statusHistory

C9_Witness ==
    \E p \in Procs :
        /\ FinishedOn(p, "processPayment")
        /\ Before(p).payment.status = "completed"
        /\ req[p].arg.transactionId # Before(p).payment.transactionId
        /\ req[p].result = "AlreadyPaid"

\* C10: a successful processPayment leaves payment.status completed and the
\* given transactionId recorded; a pending order becomes confirmed, and an
\* order in any other status keeps its status.
C10_PaymentRecorded ==
    \A p \in Procs :
        ( FinishedOn(p, "processPayment") /\ req[p].result = "ok" )
        => /\ Now(p).payment.status = "completed"
           /\ Now(p).payment.transactionId = req[p].arg.transactionId
           /\ Before(p).status = "pending" => Now(p).status = "confirmed"
           /\ Before(p).status # "pending" => Now(p).status = Before(p).status

\* A second, successful payment of an order that the first payment had
\* confirmed and a refund had then moved on.
C10_Witness ==
    \E p \in Procs :
        /\ FinishedOn(p, "processPayment")
        /\ req[p].result = "ok"
        /\ Before(p).status = "refunded"
        /\ Now(p).status = "refunded"
        /\ Now(p).payment.status = "completed"
        /\ \E k \in 1..Len(Now(p).statusHistory) :
              Now(p).statusHistory[k] = HistoryEntry("confirmed", "auto-confirmed")

\* C11: when the payment capture reports failure, or has not answered,
\* processPayment has changed nothing; on failure it returns an error and
\* the order's status, payment fields and statusHistory are as before the
\* call.
C11_FailedCaptureChangesNothing ==
    \A p \in Procs :
        /\ ( req[p].op = "processPayment" /\ req[p].pc = "pp_gateway" )
           => Now(p) = Before(p)
        /\ ( /\ FinishedOn(p, "processPayment")
             /\ req[p].result # "AlreadyPaid"
             /\ ~req[p].isPaymentSuccessful )
           => /\ req[p].result = "PaymentFailed"
              /\ Now(p).status = Before(p).status
              /\ Now(p).payment = Before(p).payment
              /\ Now(p).statusHistory = Before(p).statusHistory

\* A pending order whose capture failed: still pending, payment pending.
C11_Witness ==
    \E p \in Procs :
        /\ FinishedOn(p, "processPayment")
        /\ req[p].result = "PaymentFailed"
        /\ Before(p).status = "pending"
        /\ Now(p).status = "pending"
        /\ Now(p).payment.status = "pending"
        /\ Now(p).payment.transactionId = ""

\* C12: processRefund fails when the order's payment is not completed or
\* when the refund amount exceeds the order's total, and it then leaves the
\* order's status, payment fields and statusHistory, and all stock, as they
\* were.
C12_RefusedRefundChangesNothing ==
    \A p \in Procs :
        ( /\ FinishedOn(p, "processRefund")
          /\ \/ Before(p).payment.status # "completed"
             \/ req[p].arg.refundAmount > Before(p).total )
        => /\ req[p].result \in {"PaymentNotCompleted", "RefundExceedsTotal"}
           /\ Now(p).status = Before(p).status
           /\ Now(p).payment = Before(p).payment
           /\ Now(p).statusHistory = Before(p).statusHistory
           /\ stock = req[p].preStock

\* A paid order refused a refund larger than its total.
C12_Witness ==
    \E p \in Procs :
        /\ FinishedOn(p, "processRefund")
        /\ Before(p).payment.status = "completed"
        /\ req[p].arg.refundAmount > Before(p).total
        /\ req[p].result = "RefundExceedsTotal"
        /\ Now(p) = Before(p)

\* The units of product prod that the lines of an order hold.
RECURSIVE Reserved(_, _)
Reserved(items, prod) ==
    IF items = <<>> THEN 0
    ELSE (IF items[1].product = prod THEN items[1].quantity ELSE 0)
         + Reserved(Tail(items), prod)

\* Every line's quantity of the order of request p is back in stock, once.
RestoredOnce(p) ==
    \A prod \in Products :
        stock[prod] = req[p].preStock[prod] + Reserved(Before(p).items, prod)

\* C13: cancelOrder on a confirmed order whose payment is completed ends
\* with the stored order in status cancelled, payment.status refunded with
\* refundAmount equal to the order's total, and every line's quantity added
\* back to its product's stock exactly once.
C13_PaidCancelEndsCancelledAndRefunded ==
    \A p \in Procs :
        ( /\ FinishedOn(p, "cancelOrder")
          /\ req[p].result # "Forbidden"
          /\ Before(p).status = "confirmed"
          /\ Before(p).payment.status = "completed" )
        => /\ req[p].result = "ok"
           /\ Now(p).status = "cancelled"
           /\ Now(p).payment.status = "refunded"
           /\ Now(p).payment.refundAmount = Before(p).total
           /\ RestoredOnce(p)

\* Request p asks for the cancellation of an order, by either operation.
Cancellation(p) ==
    \/ req[p].op = "cancelOrder"
    \/ req[p].op = "updateOrderStatus" /\ req[p].arg.newStatus = "cancelled"

\* A cancellation of the order completed before request p began.
CancelledBefore(p) ==
    \E k \in 1..Len(Before(p).statusHistory) :
        Before(p).statusHistory[k].status = "cancelled"

\* C14: a cancellation that succeeds restores to each product exactly the
\* quantity the order reserved, and a cancellation attempted after one has
\* completed on the same order fails and restores nothing.
C14_CancelRestoresOnce ==
    \A p \in Procs :
        ( /\ Cancellation(p)
          /\ req[p].pc = "done"
          /\ req[p].arg.orderId \in 1..Len(req[p].preOrders) )
        => /\ req[p].result = "ok" => RestoredOnce(p)
           /\ CancelledBefore(p)
                => req[p].result # "ok" /\ stock = req[p].preStock

\* An order of two units of P1, cancelled, then refused a second
\* cancellation: P1 holds its two units again, not four.
C14_Witness ==
    \E p \in Procs :
        /\ Cancellation(p)
        /\ req[p].pc = "done"
        /\ req[p].arg.orderId \in 1..Len(req[p].preOrders)
        /\ CancelledBefore(p)
        /\ req[p].result # "ok"
        /\ Reserved(Before(p).items, "P1") = 2
        /\ stock["P1"] = InitialStock("P1")

\* C15: when two cancellations of the same order overlap, whatever the
\* interleaving of their steps, the order's line quantities are added back
\* to stock once in total: once both have answered, no product holds more
\* than what one of them found plus the order's quantity, and if one
\* succeeded the stock is what one restoration makes it.
C15_ConcurrentCancelRestoresOnce ==
    \A p, q \in Procs :
        ( /\ p # q
          /\ Cancellation(p) /\ Cancellation(q)
          /\ req[p].pc = "done" /\ req[q].pc = "done"
          /\ req[p].arg.orderId = req[q].arg.orderId
          /\ req[p].arg.orderId \in 1..Len(req[p].preOrders)
          /\ req[q].arg.orderId \in 1..Len(req[q].preOrders) )
        => /\ \A prod \in Products :
                 stock[prod] <= req[p].preStock[prod]
                                  + Reserved(Before(p).items, prod)
           /\ req[p].result = "ok" => RestoredOnce(p) \/ RestoredOnce(q)

\* The caller of cancellation request p owns the order or is an admin.
MayCancel(p) ==
    req[p].arg.userRole = "admin" \/ Before(p).customer = req[p].arg.userId

\* C16: cancelOrder changes the order or the stock only when the caller is
\* the order's customer or an admin and the order is pending or confirmed;
\* any other caller gets Forbidden, any other status the cannot-cancel
\* error, and in both cases the order and all stock are as before.
C16_CancelOnlyWhenAllowed ==
    \A p \in Procs :
        ( /\ req[p].op = "cancelOrder"
          /\ req[p].arg.orderId \in 1..Len(req[p].preOrders) )
        => /\ ( Now(p) # Before(p) \/ stock # req[p].preStock )
                => /\ MayCancel(p)
                   /\ Before(p).status \in {"pending", "confirmed"}
           /\ ( req[p].pc = "done" /\ ~MayCancel(p) )
                => req[p].result = "Forbidden"
           /\ ( /\ req[p].pc = "done"
                /\ MayCancel(p)
                /\ Before(p).status \notin {"pending", "confirmed"} )
                => req[p].result = "CannotCancel"

\* A pending order that a customer who does not own it asked to cancel.
C16_Witness ==
    \E p \in Procs :
        /\ FinishedOn(p, "cancelOrder")
        /\ req[p].arg.userRole = "customer"
        /\ Before(p).customer # req[p].arg.userId
        /\ Before(p).status = "pending"
        /\ req[p].result = "Forbidden"
        /\ Now(p) = Before(p)
        /\ stock = req[p].preStock

\* C17: addTracking changes the order's status, to shipped, only when the
\* status was pending, confirmed or processing; from shipped, delivered,
\* cancelled or refunded it leaves the status as it was.
C17_TrackingShipsOnlyEarlierStatuses ==
    \A p \in Procs :
        ( /\ req[p].op = "addTracking"
          /\ req[p].arg.orderId \in 1..Len(req[p].preOrders) )
        => /\ Now(p).status # Before(p).status
                => /\ Before(p).status \in {"pending", "confirmed", "processing"}
                   /\ Now(p).status = "shipped"
           /\ Before(p).status \in {"shipped", "delivered", "cancelled", "refunded"}
                => Now(p).status = Before(p).status

\* The order that request p, a createOrder run alone, has stored.
Created(p) == orders[Len(req[p].preOrders) + 1]

\* C18: the order of a successful createOrder has status pending,
\* payment.status pending, and a statusHistory of exactly one entry, whose
\* status is pending.
C18_CreatedOrderStartsPending ==
    \A p \in Procs :
        ( Finished(p, "createOrder") /\ req[p].result = "ok" )
        => /\ Len(orders) = Len(req[p].preOrders) + 1
           /\ Created(p).status = "pending"
           /\ Created(p).payment.status = "pending"
           /\ Len(Created(p).statusHistory) = 1
           /\ Created(p).statusHistory[1].status = "pending"

\* C19: statusHistory is append-only and holds each status change once: a
\* step that changes an order's status appends exactly one entry, whose
\* status is the new one; a step that leaves the status appends none; no
\* step removes, rewrites or reorders an entry.
C19_HistoryRecordsEachChangeOnce ==
    [][ \A id \in 1..Len(orders) :
            LET old == orders[id].statusHistory
                new == orders'[id].statusHistory
            IN  /\ Len(new) >= Len(old)
                /\ SubSeq(new, 1, Len(old)) = old
                /\ IF orders'[id].status # orders[id].status
                   THEN /\ Len(new) = Len(old) + 1
                        /\ new[Len(new)].status = orders'[id].status
                   ELSE new = old ]_vars

\* C20: clearing the cart after the order is stored is best-effort: a
\* createOrder that has stored its order answers with success whether or
\* not the cart was cleared, and the order and its reservation stay.
C20_ClearCartBestEffort ==
    \A p \in Procs :
        ( /\ Finished(p, "createOrder")
          /\ Len(orders) = Len(req[p].preOrders) + 1 )
        => /\ req[p].result = "ok"
           /\ \A prod \in Products :
                 stock[prod] = req[p].preStock[prod]
                                 - Reserved(Created(p).items, prod)

\* A cart line whose product exists, is active and has the stock for it.
LineAvailable(item) ==
    /\ item.product \in Products
    /\ catalog[item.product].isActive
    /\ catalog[item.product].status = "active"
    /\ stock[item.product] >= item.quantity

Named(error) == { error.message[k] : k \in 1..Len(error.message) } \cap Statuses

\* C22: when updateOrderStatus is refused because the transition is not
\* legal, the error the caller gets names the current and the requested
\* status, and is not the error of a generic internal failure.
C22_IllegalTransitionErrorNamesStatuses ==
    \A p \in Procs :
        ( /\ FinishedOn(p, "updateOrderStatus")
          /\ ~CanTransition(Before(p).status, req[p].arg.newStatus) )
        => /\ req[p].error # NoDoc
           /\ {Before(p).status, req[p].arg.newStatus} \subseteq Named(req[p].error)
           /\ req[p].error # AppError(<<"Failed to update order status">>, 500)

\* C23: createOrder for a single item whose quantity exceeds the product's
\* stock fails with the insufficient-stock error that reports the available
\* amount, stores no order and leaves the stock as it was.
C23_SingleItemOverStockRefused ==
    \A p \in Procs :
        ( /\ Finished(p, "createOrder")
          /\ ValidateOrder(req[p].arg.data)
          /\ req[p].arg.customerId \in Customers
          /\ Len(req[p].arg.data.items) = 1
          /\ req[p].arg.data.items[1].productId \in Products
          /\ req[p].arg.data.items[1].quantity
                > req[p].preStock[req[p].arg.data.items[1].productId] )
        => /\ req[p].result = "InsufficientStock"
           /\ req[p].available
                = req[p].preStock[req[p].arg.data.items[1].productId]
           /\ orders = req[p].preOrders
           /\ stock = req[p].preStock

\* Three units of P2 asked with one in stock: refused, one available, and
\* the one unit still there.
C23_Witness ==
    \E p \in Procs :
        /\ Finished(p, "createOrder")
        /\ req[p].arg.data.items = << Line("P2", 3) >>
        /\ req[p].preStock["P2"] = 1
        /\ req[p].result = "InsufficientStock"
        /\ req[p].available = 1
        /\ stock["P2"] = 1
        /\ orders = req[p].preOrders

\* This step is a step of the request of p, whose operation is ActingOp(p).
Acting(p) == req'[p] # req[p]

ActingOp(p) == IF req[p].op # "none" THEN req[p].op ELSE req'[p].op

ActingArg(p) == IF req[p].op # "none" THEN req[p].arg ELSE req'[p].arg

\* C24: no step of processPayment (a retry included), of addTracking, or of
\* updateOrderStatus to a status other than cancelled changes any product's
\* stock, and only a step of createOrder takes stock away.
C24_OnlyCreateOrderTakesStock ==
    [][ \A p \in Procs :
            Acting(p) =>
              /\ ( \/ ActingOp(p) \in {"processPayment", "addTracking"}
                   \/ /\ ActingOp(p) = "updateOrderStatus"
                      /\ ActingArg(p).newStatus # "cancelled" )
                 => stock' = stock
              /\ ( \E prod \in Products : stock'[prod] < stock[prod] )
                 => ActingOp(p) = "createOrder" ]_vars

\* A paid order moved on to processing: the units it took at its creation
\* are still held, no more and no less.
C24_Witness ==
    \E p \in Procs :
        /\ FinishedOn(p, "updateOrderStatus")
        /\ req[p].arg.newStatus = "processing"
        /\ req[p].result = "ok"
        /\ Before(p).payment.status = "completed"
        /\ stock = req[p].preStock
        /\ \A prod \in Products :
              stock[prod] = InitialStock(prod) - Reserved(Now(p).items, prod)
        /\ \E prod \in Products : stock[prod] < InitialStock(prod)

\* The paths of an order that are fixed at its creation.
Fixed(o) ==
    << o.customer, o.orderNumber, o.items, o.subtotal, o.tax,
       o.shippingCost, o.discount, o.total >>

\* C25: once an order is stored, no step of updateOrderStatus,
\* processPayment, processRefund, cancelOrder or addTracking (nor of any
\* other operation) changes its customer, order number, line items,
\* subtotal, tax, shippingCost, discount or total.
C25_OrderContentImmutable ==
    [][ \A id \in 1..Len(orders) : Fixed(orders'[id]) = Fixed(orders[id]) ]_vars

\* A discounted order that was paid and then refunded, its amounts still
\* adding up.
C25_Witness ==
    \E id \in 1..Len(orders) :
        /\ orders[id].discount > 0
        /\ orders[id].status = "refunded"
        /\ orders[id].payment.status = "refunded"
        /\ orders[id].total = orders[id].subtotal + orders[id].tax
                                + orders[id].shippingCost - orders[id].discount

\* C26: processRefund is accepted whenever the order's payment is completed
\* and the amount is within the total, whatever the order's status; when it
\* succeeds, payment.status is refunded, the amount asked (the total when
\* none is given) is recorded as refundAmount, the status is refunded, and
\* every line's quantity is added back to its product's stock.
C26_RefundEffects ==
    \A p \in Procs :
        FinishedOn(p, "processRefund")
        => /\ ( /\ Before(p).payment.status = "completed"
                /\ req[p].arg.refundAmount <= Before(p).total )
              => req[p].result = "ok"
           /\ req[p].result = "ok"
              => /\ Now(p).payment.status = "refunded"
                 /\ Now(p).payment.refundAmount =
                       IF req[p].arg.refundAmount # 0
                       THEN req[p].arg.refundAmount ELSE Before(p).total
                 /\ Now(p).status = "refunded"
                 /\ RestoredOnce(p)

\* A partial refund of a confirmed order, not a delivered one.
C26_Witness ==
    \E p \in Procs :
        /\ FinishedOn(p, "processRefund")
        /\ req[p].result = "ok"
        /\ Before(p).status = "confirmed"
        /\ req[p].arg.refundAmount = 300
        /\ Before(p).total > 300
        /\ Now(p).payment.refundAmount = 300
        /\ Now(p).status = "refunded"
        /\ RestoredOnce(p)

\* C27: an order's reservation is given back at most once, so that, nothing
\* else adding stock, no product ever holds more than it held at the start.
C27_ReservationReturnedAtMostOnce ==
    \A prod \in Products : stock[prod] <= InitialStock(prod)

\* C28: no order is ever cancelled with its payment completed: captured
\* money is not left on a cancelled order.
C28_NoCancelledOrderHoldsPayment ==
    \A id \in 1..Len(orders) :
        ~( orders[id].status = "cancelled"
           /\ orders[id].payment.status = "completed" )

\* C29: an order whose status is refunded has payment.status refunded and a
\* recorded refundAmount that is at most its total.
C29_RefundedOrderHasRefund ==
    \A id \in 1..Len(orders) :
        orders[id].status = "refunded"
        => /\ orders[id].payment.status = "refunded"
           /\ orders[id].payment.refundAmount # Undefined
           /\ orders[id].payment.refundAmount <= orders[id].total

\* The auto-confirm entries of a statusHistory.
AutoConfirms(h) == { k \in 1..Len(h) : h[k].note = "auto-confirmed" }

\* C30: of two processPayment calls that overlap on the same unpaid pending
\* order at most one succeeds, and the order gets one auto-confirm entry.
C30_ConcurrentPaymentsOneSucceeds ==
    \A p, q \in Procs :
        ( /\ p # q
          /\ FinishedOn(p, "processPayment") /\ FinishedOn(q, "processPayment")
          /\ req[p].arg.orderId = req[q].arg.orderId
          /\ Before(p).status = "pending"
          /\ Before(p).payment.status = "pending"
          /\ req[q].preOrders[req[q].arg.orderId].payment.status = "pending" )
        => /\ ~( req[p].result = "ok" /\ req[q].result = "ok" )
           /\ Cardinality(AutoConfirms(Now(p).statusHistory)) <= 1

====
